---- MODULE Spec2Model ----
(***************************************************************************)
(* Todo item management: TodoService over SQLiteTodoStorage, with the two  *)
(* request handlers of main.py that validate a request body before they    *)
(* call the service.  Under Spec every handler is one atomic action: the   *)
(* calls are issued one after another.  Under SpecC the calls overlap: an  *)
(* update or a delete is a series of steps, one for each statement the     *)
(* database executes and one for each reading of the clock that is stored. *)
(***************************************************************************)
EXTENDS Integers, Sequences, FiniteSets, Bags, TLC

\* ---------------------------------------------------------------- bounds
\* Largest reading datetime.utcnow() can return.
MaxClock == 2
\* Number of calls in one run.
MaxCalls == 3

\* ------------------------------------------------------------ value sets
\* Ids: one for every call of a run, so uuid4() never runs out.
UUIDs == 0 .. (MaxCalls - 1)
\* A field a request body does not carry.
Unset == "<unset>"

\* models.py Status(str, Enum): the members, and the string each carries.
PENDING == "Status.PENDING"
IN_PROGRESS == "Status.IN_PROGRESS"
COMPLETED == "Status.COMPLETED"
Status == {PENDING, IN_PROGRESS, COMPLETED}

StatusValue(s) ==
    CASE s = PENDING -> "PENDING"
      [] s = IN_PROGRESS -> "IN_PROGRESS"
      [] s = COMPLETED -> "COMPLETED"

\* Status(label): the member that carries the label.
StatusOf(label) == CHOOSE s \in Status : StatusValue(s) = label

\* str(uuid): the text of an id, two hexadecimal digits here.
HexDigits == <<"0", "1", "2", "3", "4", "5", "6", "7",
               "8", "9", "a", "b", "c", "d", "e", "f">>

UuidStr(u) == <<HexDigits[(u \div 16) + 1], HexDigits[(u % 16) + 1]>>

HexValue(c) == (CHOOSE i \in 1 .. 16 : HexDigits[i] = c) - 1

\* UUID(text): the id a text denotes.
UuidOf(s) == HexValue(s[1]) * 16 + HexValue(s[2])

\* ------------------------------------------------------------- the state
VARIABLES
    table,    \* todo_items: the rows in insertion order
    clock,    \* the latest reading of datetime.utcnow()
    issued,   \* the values uuid4() has returned so far
    created,  \* history: ids of the items successful add_todo calls returned
    deleted,  \* history: ids successful delete_todo calls removed
    written,  \* history: per id, the item its latest successful create or
              \* update returned; empty once the id is deleted
    last,     \* the latest call: operation, arguments, error, returned items
    calls,    \* the number of calls so far
    procs,    \* the update and delete calls in flight (a bag of records)
    versions  \* history: per id, the items the commits so far have stored

vars == <<table, clock, issued, created, deleted, written, last, calls,
          procs, versions>>

NoId == 0 - 1
NoBody == [title |-> Unset, description |-> Unset, status |-> Unset]

Call(op, id, body, err, ret) ==
    [op |-> op, id |-> id, body |-> body, err |-> err, ret |-> ret]

\* -------------------------------------------------------- models.TodoItem
TodoItem(id, title, description, status, created_at, updated_at) ==
    [id |-> id, title |-> title, description |-> description,
     status |-> status, created_at |-> created_at, updated_at |-> updated_at]

\* datetime.utcnow(): a reading not before the previous one.
utcnow(c) == c .. MaxClock

\* ---------------------------------------------------- SQLiteTodoStorage
TodoItemSchema(id, title, description, status, created_at, updated_at) ==
    [id |-> id, title |-> title, description |-> description,
     status |-> status, created_at |-> created_at, updated_at |-> updated_at]

schema_to_model(schema) ==
    TodoItem(UuidOf(schema.id), schema.title, schema.description,
             StatusOf(schema.status), schema.created_at, schema.updated_at)

\* select(TodoItemSchema).where(TodoItemSchema.id == key): the matching rows.
SelectWhereId(tbl, key) == SelectSeq(tbl, LAMBDA r : r.id = key)

Outcome(tbl, err, ret) == [table |-> tbl, err |-> err, ret |-> ret]

\* Position of the first row with the key, 0 when there is none.
RowIndex(tbl, key) ==
    IF \E i \in 1 .. Len(tbl) : tbl[i].id = key
    THEN CHOOSE i \in 1 .. Len(tbl) :
             tbl[i].id = key /\ \A j \in 1 .. (i - 1) : tbl[j].id # key
    ELSE 0

RemoveAt(tbl, i) == SubSeq(tbl, 1, i - 1) \o SubSeq(tbl, i + 1, Len(tbl))

\* session.add(db_item); commit(); refresh(db_item).  id is the primary key:
\* a second row with the same id is refused by the database.
create_todo(tbl, item) ==
    LET db_item == TodoItemSchema(UuidStr(item.id), item.title,
                                  item.description, StatusValue(item.status),
                                  item.created_at, item.updated_at)
    IN  IF SelectWhereId(tbl, db_item.id) # <<>>
        THEN Outcome(tbl, "IntegrityError", <<>>)
        ELSE Outcome(Append(tbl, db_item), "none", <<schema_to_model(db_item)>>)

storage_get_todo(tbl, id) ==
    LET rows == SelectWhereId(tbl, UuidStr(id))
    IN  IF rows = <<>>
        THEN Outcome(tbl, "KeyError", <<>>)
        ELSE Outcome(tbl, "none", <<schema_to_model(rows[1])>>)

\* Faulty variant: .first() in place of .all().
storage_list_todos_first(tbl) ==
    Outcome(tbl, "none",
            IF tbl = <<>> THEN <<>> ELSE <<schema_to_model(tbl[1])>>)

storage_list_todos(tbl) ==
    Outcome(tbl, "none", [i \in 1 .. Len(tbl) |-> schema_to_model(tbl[i])])

\* Faulty variant: answers with the caller's item, not with the stored row.
storage_update_todo_echo(tbl, item, t) ==
    LET i == RowIndex(tbl, UuidStr(item.id))
    IN  IF i = 0
        THEN Outcome(tbl, "KeyError", <<>>)
        ELSE Outcome([tbl EXCEPT ![i] = [tbl[i] EXCEPT
                                           !.status = StatusValue(item.status),
                                           !.updated_at = t]],
                     "none", <<item>>)

\* Faulty variant: stamps created_at as well.
storage_update_todo_restamp(tbl, item, t) ==
    LET i == RowIndex(tbl, UuidStr(item.id))
    IN  IF i = 0
        THEN Outcome(tbl, "KeyError", <<>>)
        ELSE LET db_item == [tbl[i] EXCEPT !.status = StatusValue(item.status),
                                           !.created_at = t,
                                           !.updated_at = t]
             IN  Outcome([tbl EXCEPT ![i] = db_item], "none",
                         <<schema_to_model(db_item)>>)

\* t is the reading of datetime.utcnow() the storage takes itself.
storage_update_todo(tbl, item, t) ==
    LET i == RowIndex(tbl, UuidStr(item.id))
    IN  IF i = 0
        THEN Outcome(tbl, "KeyError", <<>>)
        ELSE LET db_item == [tbl[i] EXCEPT !.status = StatusValue(item.status),
                                           !.updated_at = t]
             IN  Outcome([tbl EXCEPT ![i] = db_item], "none",
                         <<schema_to_model(db_item)>>)

\* Faulty variant: deleting an absent id is not an error.
storage_delete_todo_quiet(tbl, id) ==
    LET i == RowIndex(tbl, UuidStr(id))
    IN  IF i = 0
        THEN Outcome(tbl, "none", <<>>)
        ELSE Outcome(RemoveAt(tbl, i), "none", <<>>)

\* Faulty variant: the deletion is never committed.
storage_delete_todo_uncommitted(tbl, id) ==
    LET i == RowIndex(tbl, UuidStr(id))
    IN  IF i = 0
        THEN Outcome(tbl, "KeyError", <<>>)
        ELSE Outcome(tbl, "none", <<>>)

storage_delete_todo(tbl, id) ==
    LET i == RowIndex(tbl, UuidStr(id))
    IN  IF i = 0
        THEN Outcome(tbl, "KeyError", <<>>)
        ELSE Outcome(RemoveAt(tbl, i), "none", <<>>)

\* ------------------------------------------------------------ TodoService
\* Faulty variant: an id generator that may repeat a value.
uuid4_reuse(seen) == UUIDs

\* uuid4(): a value it has not returned before.  Ids are only ever compared
\* for equality, so the least unused value stands for any fresh one.
uuid4(seen) == {u \in UUIDs \ seen : \A v \in UUIDs \ seen : u <= v}

\* Faulty variant: the two readings assigned the other way round.
add_todo_swapped(tbl, title, description, u, t1, t2) ==
    create_todo(tbl, TodoItem(u, title, description, PENDING, t2, t1))

\* t1 and t2 are the two readings of datetime.utcnow(), in evaluation order;
\* u is the value of the id field's default_factory.
add_todo(tbl, title, description, u, t1, t2) ==
    LET todo_item == TodoItem(u, title, description, PENDING, t1, t2)
    IN  create_todo(tbl, todo_item)

get_todo(tbl, id) == storage_get_todo(tbl, id)

list_todos(tbl) == storage_list_todos(tbl)

\* t1 is the service's reading of datetime.utcnow(), t2 the storage's.
update_todo(tbl, id, status, t1, t2) ==
    LET got == storage_get_todo(tbl, id)
    IN  IF got.err # "none"
        THEN got
        ELSE LET todo_item == [got.ret[1] EXCEPT !.status = status,
                                                 !.updated_at = t1]
             IN  storage_update_todo(tbl, todo_item, t2)

delete_todo(tbl, id) == storage_delete_todo(tbl, id)

\* ------------------------------------------------- schemas and models
\* schemas.TodoCreate: title 1..100 characters, description at least 1.
TitleMaxLength == 100

TodoCreate(body) ==
    /\ body.title # Unset
    /\ body.description # Unset
    /\ Len(body.title) >= 1
    /\ Len(body.title) <= TitleMaxLength
    /\ Len(body.description) >= 1

\* models.TodoItemUpdate: status is required, other fields are ignored.
TodoItemUpdate(body) == body.status \in Status

\* ---------------------------------------------------------------- actions
Init ==
    /\ table = <<>>
    /\ clock = 0
    /\ issued = {}
    /\ created = {}
    /\ deleted = {}
    /\ written = [id \in UUIDs |-> <<>>]
    /\ last = Call("init", NoId, NoBody, "none", <<>>)
    /\ calls = 0
    /\ procs = EmptyBag
    /\ versions = [id \in UUIDs |-> {}]

\* The (title, description) pairs callers pass: one valid, one with an empty
\* title, one with an empty description.
CreateInputs == {<<"a", "d">>, <<"", "d">>, <<"a", "">>}

\* The request bodies sent to PUT /todos/{todo_id}.
PutBodies ==
    {[title |-> Unset, description |-> Unset, status |-> Unset],
     [title |-> Unset, description |-> Unset, status |-> IN_PROGRESS],
     [title |-> "b", description |-> Unset, status |-> COMPLETED],
     [title |-> Unset, description |-> "e", status |-> PENDING]}

\* The effect of a successful or refused creation on the state.
Created(op, body, u, t2, r) ==
    /\ table' = r.table
    /\ clock' = t2
    /\ issued' = issued \cup {u}
    /\ created' = IF r.err = "none" THEN created \cup {r.ret[1].id} ELSE created
    /\ written' = IF r.err = "none"
                  THEN [written EXCEPT ![r.ret[1].id] = r.ret]
                  ELSE written
    /\ last' = Call(op, NoId, body, r.err, r.ret)
    /\ UNCHANGED deleted

AddTodo ==
    \E in \in CreateInputs, u \in uuid4(issued) :
      \E t1 \in utcnow(clock) :
        \E t2 \in utcnow(t1) :
          Created("add_todo",
                  [NoBody EXCEPT !.title = in[1], !.description = in[2]],
                  u, t2, add_todo(table, in[1], in[2], u, t1, t2))

GetTodo ==
    \E id \in UUIDs :
      LET r == get_todo(table, id)
      IN  /\ last' = Call("get_todo", id, NoBody, r.err, r.ret)
          /\ table' = r.table
          /\ UNCHANGED <<clock, issued, created, deleted, written>>

ListTodos ==
    LET r == list_todos(table)
    IN  /\ last' = Call("list_todos", NoId, NoBody, r.err, r.ret)
        /\ table' = r.table
        /\ UNCHANGED <<clock, issued, created, deleted, written>>

\* The effect of update_todo; the clock is read only once the item is found.
Updated(op, id, body, status) ==
    IF get_todo(table, id).err # "none"
    THEN LET r == update_todo(table, id, status, clock, clock)
         IN  /\ table' = r.table
             /\ last' = Call(op, id, body, r.err, r.ret)
             /\ UNCHANGED <<clock, issued, created, deleted, written>>
    ELSE \E t1 \in utcnow(clock) :
           \E t2 \in utcnow(t1) :
             LET r == update_todo(table, id, status, t1, t2)
             IN  /\ table' = r.table
                 /\ clock' = t2
                 /\ written' = IF r.err = "none"
                               THEN [written EXCEPT ![id] = r.ret]
                               ELSE written
                 /\ last' = Call(op, id, body, r.err, r.ret)
                 /\ UNCHANGED <<issued, created, deleted>>

UpdateTodo ==
    \E id \in UUIDs, status \in Status :
      Updated("update_todo", id, [NoBody EXCEPT !.status = status], status)

DeleteTodo ==
    \E id \in UUIDs :
      LET r == delete_todo(table, id)
      IN  /\ table' = r.table
          /\ deleted' = IF r.err = "none" THEN deleted \cup {id} ELSE deleted
          /\ written' = IF r.err = "none"
                        THEN [written EXCEPT ![id] = <<>>]
                        ELSE written
          /\ last' = Call("delete_todo", id, NoBody, r.err, r.ret)
          /\ UNCHANGED <<clock, issued, created>>

\* main.create_todo: POST /todos.  The body is parsed as TodoCreate before
\* the handler runs; a body it refuses is answered 422.
PostTodos ==
    \E in \in CreateInputs :
      LET body == [NoBody EXCEPT !.title = in[1], !.description = in[2]]
      IN  IF ~TodoCreate(body)
          THEN /\ last' = Call("POST /todos", NoId, body, "ValidationError", <<>>)
               /\ UNCHANGED <<table, clock, issued, created, deleted, written>>
          ELSE \E u \in uuid4(issued) :
                 \E t1 \in utcnow(clock) :
                   \E t2 \in utcnow(t1) :
                     Created("POST /todos", body, u, t2,
                             add_todo(table, in[1], in[2], u, t1, t2))

\* main.update_todo: PUT /todos/{todo_id}.  The body is parsed as
\* TodoItemUpdate; KeyError is answered 404.
PutTodo ==
    \E id \in UUIDs, body \in PutBodies :
      IF ~TodoItemUpdate(body)
      THEN /\ last' = Call("PUT /todos", id, body, "ValidationError", <<>>)
           /\ UNCHANGED <<table, clock, issued, created, deleted, written>>
      ELSE Updated("PUT /todos", id, body, body.status)

\* One more call, while the run has calls left.  No call is in flight
\* when the calls are issued one after another.
Counted(A) ==
    /\ calls < MaxCalls
    /\ calls' = calls + 1
    /\ A
    /\ UNCHANGED <<procs, versions>>

Next ==
    \/ Counted(AddTodo)
    \/ Counted(GetTodo)
    \/ Counted(ListTodos)
    \/ Counted(UpdateTodo)
    \/ Counted(DeleteTodo)
    \/ Counted(PostTodos)
    \/ Counted(PutTodo)

Spec == Init /\ [][Next]_vars

\* ------------------------------------------------------ overlapping calls
\* The session of one storage call holds the row it selected (loaded) and the
\* same row with the attributes the call assigned (db_item).  Its flush
\* writes the columns whose value differs from the value loaded.
Dirty(loaded, db_item) ==
    {c \in {"status", "updated_at"} : db_item[c] # loaded[c]}

Overwrite(row, db_item, cols) ==
    [c \in DOMAIN row |-> IF c \in cols THEN db_item[c] ELSE row[c]]

\* Faulty variant: status and updated_at are written in separate commits.
storage_flush_split(tbl, db_item, cols) ==
    LET i == RowIndex(tbl, db_item.id)
        first == IF "status" \in cols THEN {"status"} ELSE cols
    IN  IF cols = {}
        THEN Outcome(tbl, "none", <<>>)
        ELSE IF i = 0
        THEN Outcome(tbl, "StaleDataError", <<>>)
        ELSE Outcome([tbl EXCEPT ![i] = Overwrite(tbl[i], db_item, first)],
                     "none", <<>>)

\* Faulty variant: a row that is gone is written back (merge, not update).
storage_flush_upsert(tbl, db_item, cols) ==
    LET i == RowIndex(tbl, db_item.id)
    IN  IF cols = {}
        THEN Outcome(tbl, "none", <<>>)
        ELSE IF i = 0
        THEN Outcome(Append(tbl, db_item), "none", <<>>)
        ELSE Outcome([tbl EXCEPT ![i] = Overwrite(tbl[i], db_item, cols)],
                     "none", <<>>)

\* session.commit() of update_todo: UPDATE todo_items SET cols WHERE id = key,
\* in one transaction.  No statement when nothing differs; an UPDATE that
\* matches no row is an error of the session.
storage_flush(tbl, db_item, cols) ==
    LET i == RowIndex(tbl, db_item.id)
    IN  IF cols = {}
        THEN Outcome(tbl, "none", <<>>)
        ELSE IF i = 0
        THEN Outcome(tbl, "StaleDataError", <<>>)
        ELSE Outcome([tbl EXCEPT ![i] = Overwrite(tbl[i], db_item, cols)],
                     "none", <<>>)

\* session.refresh(db_item): the row as it is now.
storage_refresh(tbl, key) ==
    LET rows == SelectWhereId(tbl, key)
    IN  IF rows = <<>>
        THEN Outcome(tbl, "InvalidRequestError", <<>>)
        ELSE Outcome(tbl, "none", <<schema_to_model(rows[1])>>)

\* A call in flight.  item is the TodoItem the service holds, loaded and
\* db_item the session's row (empty before the select).
InFlight(op, id, status, pc, item, loaded, db_item) ==
    [op |-> op, id |-> id, status |-> status, pc |-> pc, item |-> item,
     loaded |-> loaded, db_item |-> db_item]

One(p) == SetToBag({p})
Running(op, pc) == {p \in BagToSet(procs) : p.op = op /\ p.pc = pc}

\* update_todo, lines 37-41: storage.get_todo, then the service's reading of
\* the clock.  The reading is stored nowhere, so it is taken with the select.
\* The statuses the overlapping updates ask for: the one a new item has and
\* another one.
RacingStatuses == {PENDING, COMPLETED}

UpdateGet ==
    \E id \in UUIDs, status \in RacingStatuses :
      LET got == storage_get_todo(table, id)
          body == [NoBody EXCEPT !.status = status]
      IN  /\ calls < MaxCalls
          /\ calls' = calls + 1
          /\ IF got.err # "none"
             THEN /\ last' = Call("update_todo", id, body, got.err, got.ret)
                  /\ UNCHANGED <<clock, procs>>
             ELSE \E t1 \in utcnow(clock) :
                    /\ clock' = t1
                    /\ procs' = procs (+) One(InFlight("update_todo", id, status,
                                   "select",
                                   <<[got.ret[1] EXCEPT !.status = status,
                                                        !.updated_at = t1]>>,
                                   <<>>, <<>>))
                    /\ UNCHANGED last
          /\ UNCHANGED <<table, issued, created, deleted, written, versions>>

\* storage update_todo, lines 67-73: the select of its own session.
UpdateSelect ==
    \E p \in Running("update_todo", "select") :
      LET i == RowIndex(table, UuidStr(p.item[1].id))
      IN  /\ IF i = 0
             THEN /\ procs' = procs (-) One(p)
                  /\ last' = Call("update_todo", p.id,
                                  [NoBody EXCEPT !.status = p.status],
                                  "KeyError", <<>>)
             ELSE /\ procs' = (procs (-) One(p))
                              (+) One([p EXCEPT !.pc = "stamp",
                                                !.loaded = <<table[i]>>])
                  /\ UNCHANGED last
          /\ UNCHANGED <<table, clock, issued, created, deleted, written,
                         calls, versions>>

\* storage update_todo, lines 76-77: the attributes are assigned, updated_at
\* from the storage's own reading of the clock.
UpdateStamp ==
    \E p \in Running("update_todo", "stamp") :
      \E t2 \in utcnow(clock) :
        /\ clock' = t2
        /\ procs' = (procs (-) One(p))
                    (+) One([p EXCEPT
                               !.pc = "commit",
                               !.db_item = <<[p.loaded[1] EXCEPT
                                   !.status = StatusValue(p.item[1].status),
                                   !.updated_at = t2]>>])
        /\ UNCHANGED <<table, issued, created, deleted, written, last, calls,
                       versions>>

\* The effect of the commit of p with the row db and the columns cols.
UpdateCommitted(p, db, cols) ==
    LET r == storage_flush(table, db, cols)
        i == RowIndex(table, db.id)
    IN  /\ table' = r.table
        /\ IF r.err # "none"
           THEN /\ procs' = procs (-) One(p)
                /\ last' = Call("update_todo", p.id,
                                [NoBody EXCEPT !.status = p.status],
                                r.err, <<>>)
                /\ UNCHANGED versions
           ELSE /\ procs' = (procs (-) One(p))
                            (+) One([p EXCEPT !.pc = "refresh",
                                              !.item = <<>>,
                                              !.loaded = <<>>,
                                              !.db_item = <<db>>])
                /\ versions' =
                       IF cols = {} \/ i = 0
                       THEN versions
                       ELSE [versions EXCEPT ![p.id] = @ \cup
                               {schema_to_model(Overwrite(table[i], db, cols))}]
                /\ UNCHANGED last

\* storage update_todo, line 79: commit.  When status is written and
\* updated_at is not, the column's onupdate default reads the clock.
UpdateCommit ==
    \E p \in Running("update_todo", "commit") :
      LET cols == Dirty(p.loaded[1], p.db_item[1])
      IN  /\ IF cols = {"status"}
             THEN \E t3 \in utcnow(clock) :
                    /\ clock' = t3
                    /\ UpdateCommitted(p,
                           [p.db_item[1] EXCEPT !.updated_at = t3],
                           {"status", "updated_at"})
             ELSE /\ UNCHANGED clock
                  /\ UpdateCommitted(p, p.db_item[1], cols)
          /\ UNCHANGED <<issued, created, deleted, written, calls>>

\* storage update_todo, lines 80-82: refresh, and the item is returned.  The
\* call reads item and loaded no more once it has committed.
UpdateRefresh ==
    \E p \in Running("update_todo", "refresh") :
      LET r == storage_refresh(table, p.db_item[1].id)
      IN  /\ procs' = procs (-) One(p)
          /\ last' = Call("update_todo", p.id,
                          [NoBody EXCEPT !.status = p.status], r.err, r.ret)
          /\ written' = IF r.err = "none"
                        THEN [written EXCEPT ![p.id] = r.ret]
                        ELSE written
          /\ UNCHANGED <<table, clock, issued, created, deleted, calls,
                         versions>>

\* storage delete_todo, lines 86-92: the select.
DeleteSelect ==
    \E id \in UUIDs :
      LET i == RowIndex(table, UuidStr(id))
      IN  /\ calls < MaxCalls
          /\ calls' = calls + 1
          /\ IF i = 0
             THEN /\ last' = Call("delete_todo", id, NoBody, "KeyError", <<>>)
                  /\ UNCHANGED procs
             ELSE /\ procs' = procs (+) One(InFlight("delete_todo", id, Unset,
                                   "commit", <<>>, <<table[i]>>, <<>>))
                  /\ UNCHANGED last
          /\ UNCHANGED <<table, clock, issued, created, deleted, written,
                         versions>>

\* storage delete_todo, lines 94-95: DELETE FROM todo_items WHERE id = key
\* and commit.  A DELETE that matches no row is a warning, not an error.
DeleteCommit ==
    \E p \in Running("delete_todo", "commit") :
      LET i == RowIndex(table, p.loaded[1].id)
      IN  /\ table' = IF i = 0 THEN table ELSE RemoveAt(table, i)
          /\ procs' = procs (-) One(p)
          /\ deleted' = deleted \cup {p.id}
          /\ written' = [written EXCEPT ![p.id] = <<>>]
          /\ last' = Call("delete_todo", p.id, NoBody, "none", <<>>)
          /\ UNCHANGED <<clock, issued, created, calls, versions>>

\* add_todo while other calls are in flight, with the valid input.  No other
\* call can name the id before add_todo has returned it, so the insert and
\* its refresh are one step.
RacingAddTodo ==
    /\ calls < MaxCalls
    /\ calls' = calls + 1
    /\ \E u \in uuid4(issued) :
         \E t1 \in utcnow(clock) :
           \E t2 \in utcnow(t1) :
             Created("add_todo",
                     [NoBody EXCEPT !.title = "a", !.description = "d"],
                     u, t2, add_todo(table, "a", "d", u, t1, t2))
    /\ versions' = IF last'.err = "none"
                   THEN [versions EXCEPT ![last'.ret[1].id] =
                                             @ \cup {last'.ret[1]}]
                   ELSE versions
    /\ UNCHANGED procs

NextC ==
    \/ RacingAddTodo
    \/ Counted(GetTodo)
    \/ UpdateGet
    \/ UpdateSelect
    \/ UpdateStamp
    \/ UpdateCommit
    \/ UpdateRefresh
    \/ DeleteSelect
    \/ DeleteCommit

SpecC == Init /\ [][NextC]_vars

\* ------------------------------------------------------------- properties
CreateOps == {"add_todo", "POST /todos"}
UpdateOps == {"update_todo", "PUT /todos"}

Stored(tbl, id) == storage_get_todo(tbl, id).err = "none"
StoredItem(tbl, id) == storage_get_todo(tbl, id).ret[1]

\* C1: a successful create with a non-empty title and description returns an
\* item whose status is PENDING and whose id no earlier create returned,
\* deleted items included.
C1_CreateFreshPending ==
    [][(/\ last'.op \in CreateOps
        /\ calls' # calls
        /\ last'.body.title # ""
        /\ last'.body.description # ""
        /\ last'.err = "none")
       => (/\ last'.ret[1].status = PENDING
           /\ last'.ret[1].id \notin created
           /\ last'.ret[1].id \notin deleted)]_vars

\* A create has succeeded after an earlier item was created and deleted.
C1_Witness ==
    /\ last.op \in CreateOps
    /\ last.err = "none"
    /\ last.body.title # ""
    /\ last.body.description # ""
    /\ deleted # {}
    /\ Cardinality(created) = 2
    /\ last.ret[1].id \notin deleted

\* C2: every item a successful create returns has created_at = updated_at,
\* whatever the clock does between the steps of the create.
C2_CreatedEqualsUpdated ==
    (last.op = "add_todo" /\ last.err = "none")
        => last.ret[1].created_at = last.ret[1].updated_at

\* C3: add_todo with an empty title or an empty description fails and
\* stores nothing.
C3_EmptyRejected ==
    [][(/\ last'.op = "add_todo"
        /\ calls' # calls
        /\ (last'.body.title = "" \/ last'.body.description = ""))
       => (last'.err # "none" /\ table' = table)]_vars

\* C4: a get_todo of an id whose latest mutation was a successful create or
\* update returns an item equal in every field to the item that create or
\* update returned.
C4_ReadYourWrites ==
    (last.op = "get_todo" /\ written[last.id] # <<>>)
        => (last.err = "none" /\ last.ret = written[last.id])

\* A get_todo has read an item whose latest mutation was an update that
\* moved updated_at past created_at.
C4_Witness ==
    /\ last.op = "get_todo"
    /\ last.err = "none"
    /\ written[last.id] # <<>>
    /\ written[last.id][1].status = IN_PROGRESS
    /\ written[last.id][1].updated_at > written[last.id][1].created_at

\* C5: update_todo of a stored id succeeds for every current and every target
\* status, stores the target status, and leaves id, title, description and
\* created_at of the item, and every other row, as they were.
C5_UpdateFrame ==
    [][(/\ last'.op = "update_todo"
        /\ calls' # calls
        /\ Stored(table, last'.id))
       => (/\ last'.err = "none"
           /\ Stored(table', last'.id)
           /\ StoredItem(table', last'.id) =
                  [StoredItem(table, last'.id) EXCEPT
                      !.status = last'.body.status,
                      !.updated_at = StoredItem(table', last'.id).updated_at]
           /\ Len(table') = Len(table)
           /\ \A i \in 1 .. Len(table) :
                  table[i].id # UuidStr(last'.id) => table'[i] = table[i])]_vars

\* An update_todo back to PENDING has succeeded on an item an earlier update
\* had moved away from PENDING.
C5_Witness ==
    /\ last.op = "update_todo"
    /\ last.err = "none"
    /\ calls = 3
    /\ Len(table) = 1
    /\ last.ret[1].status = PENDING
    /\ last.ret[1].updated_at > last.ret[1].created_at

\* C6: get_todo, update_todo and delete_todo of an id that is not stored fail
\* with KeyError and leave the table as it was.
C6_NotFound ==
    [][(/\ last'.op \in {"get_todo", "update_todo", "delete_todo"}
        /\ calls' # calls
        /\ ~Stored(table, last'.id))
       => (last'.err = "KeyError" /\ last'.ret = <<>> /\ table' = table)]_vars

\* A delete_todo of an absent id has failed while another item is stored.
C6_Witness ==
    /\ last.op = "delete_todo"
    /\ last.err = "KeyError"
    /\ table # <<>>
    /\ ~Stored(table, last.id)

\* C7: once an id is deleted, get_todo of it fails with KeyError in every
\* later state, whatever calls follow.
C7_DeletedStaysGone ==
    /\ \A id \in deleted : get_todo(table, id).err = "KeyError"
    /\ (last.op = "get_todo" /\ last.id \in deleted) => last.err = "KeyError"

\* A get_todo of a deleted id has failed.
C7_Witness ==
    /\ last.op = "get_todo"
    /\ last.id \in deleted
    /\ last.err = "KeyError"

\* The items a listing must hold: the ids created and not deleted, each once,
\* each with the fields its latest create or update returned.
ListOk(ret) ==
    /\ {ret[i].id : i \in 1 .. Len(ret)} = created \ deleted
    /\ Len(ret) = Cardinality(created \ deleted)
    /\ \A i \in 1 .. Len(ret) : <<ret[i]>> = written[ret[i].id]

\* C8: list_todos returns exactly the items created and not since deleted,
\* each once and with its current fields, and an empty sequence, not an
\* error, when there are none.
C8_ListExact ==
    /\ list_todos(table).err = "none"
    /\ ListOk(list_todos(table).ret)
    /\ last.op = "list_todos" => (last.err = "none" /\ ListOk(last.ret))

\* A list_todos has returned two items, both created and neither deleted.
C8_Witness ==
    /\ last.op = "list_todos"
    /\ Len(last.ret) = 2
    /\ Cardinality(created) = 2

\* C9: every stored row and every returned item has updated_at >= created_at.
C9_UpdatedNotBeforeCreated ==
    /\ \A i \in 1 .. Len(table) : table[i].updated_at >= table[i].created_at
    /\ \A i \in 1 .. Len(last.ret) :
           last.ret[i].updated_at >= last.ret[i].created_at

\* A create has returned an item whose two timestamps differ.
C9_Witness ==
    /\ last.op \in CreateOps
    /\ last.err = "none"
    /\ last.ret[1].updated_at > last.ret[1].created_at
    /\ table[Len(table)].updated_at > table[Len(table)].created_at

\* C10: an update request on a stored item succeeds for every patch over
\* title, description and status; each field the patch sets has the patch's
\* value afterwards and each field it leaves unset keeps its value.
C10_PartialPatch ==
    [][(/\ last'.op = "PUT /todos"
        /\ calls' # calls
        /\ Stored(table, last'.id))
       => (/\ last'.err = "none"
           /\ Stored(table', last'.id)
           /\ LET old == StoredItem(table, last'.id)
                  new == StoredItem(table', last'.id)
                  patch == last'.body
              IN  /\ new.title = IF patch.title = Unset
                                 THEN old.title ELSE patch.title
                  /\ new.description = IF patch.description = Unset
                                       THEN old.description
                                       ELSE patch.description
                  /\ new.status = IF patch.status = Unset
                                  THEN old.status ELSE patch.status
                  /\ new.id = old.id
                  /\ new.created_at = old.created_at)]_vars

\* ------------------------------------------- properties, overlapping calls
\* The update calls about to commit a row for id.
Committing(id) == {p \in Running("update_todo", "commit") : p.id = id}

\* C11: the updated_at an update stores is the value the service assigned to
\* its item (storage passes it through and takes no reading of its own):
\* whenever the stored updated_at of an item changes, a committing update
\* call holds an item with exactly that updated_at.
C11_StoragePassThrough ==
    [][\A id \in UUIDs :
         (/\ Stored(table, id)
          /\ Stored(table', id)
          /\ StoredItem(table', id).updated_at # StoredItem(table, id).updated_at)
         => \E p \in Committing(id) :
              p.item[1].updated_at = StoredItem(table', id).updated_at]_vars

\* C12: a get_todo that overlaps an update or a delete of the same id returns
\* a whole item, one that some commit stored, never a mix of two of them; it
\* raises KeyError only for an id that was never created or that a delete
\* removed.  The table itself holds only whole items.
C12_GetSeesWholeItem ==
    /\ \A id \in UUIDs :
         Stored(table, id) => StoredItem(table, id) \in versions[id]
    /\ last.op = "get_todo" =>
         IF last.err = "none"
         THEN last.ret[1] \in versions[last.id]
         ELSE /\ last.err = "KeyError"
              /\ last.id \notin created \/ last.id \in deleted

\* A get_todo returned the item with its new status while the update that
\* committed it had not yet returned.
C12_Witness ==
    /\ last.op = "get_todo"
    /\ last.err = "none"
    /\ last.ret[1].status = COMPLETED
    /\ \E p \in Running("update_todo", "refresh") :
         /\ p.id = last.id
         /\ last.ret = <<schema_to_model(p.db_item[1])>>

\* The step is the commit of the update call p.
CommitOf(p) ==
    \E q \in Running("update_todo", "refresh")' :
      /\ q.id = p.id
      /\ q.status = p.status
      /\ procs' = (procs (-) One(p)) (+) One(q)

\* No delete has run or is running, so an update that commits also returns.
NoDelete == deleted = {} /\ Running("delete_todo", "commit") = {}

\* C13: when two update calls on one item overlap and both succeed, the
\* status stored after the later of the two commits is the status that
\* committing call asked for.
C13_LastCommitWins ==
    [][\A p \in Running("update_todo", "commit") :
         (/\ NoDelete
          /\ CommitOf(p)
          /\ \E o \in Running("update_todo", "refresh") : o.id = p.id)
         => StoredItem(table', p.id).status = p.status]_vars

\* C14: an update never brings a deleted item back.  No row exists for an id
\* a delete has removed, whatever the interleaving; and an update whose
\* get_todo found the item, but whose storage call selects after the delete
\* committed, raises KeyError and leaves the table as it is.
C14_NoResurrection ==
    [][/\ \A id \in deleted' : ~Stored(table', id)
       /\ \A p \in Running("update_todo", "select") :
            (p.id \in deleted /\ procs' = procs (-) One(p))
            => /\ last'.op = "update_todo"
               /\ last'.id = p.id
               /\ last'.err = "KeyError"
               /\ table' = table]_vars

\* An update raised KeyError for an item that was deleted after the update's
\* get_todo had found it.  The run is one create, one delete and the update;
\* the update read the clock, later than every updated_at stored for the id,
\* so its get_todo succeeded.
C14_Witness ==
    /\ calls = 3
    /\ issued = {last.id}
    /\ procs = EmptyBag
    /\ last.op = "update_todo"
    /\ last.err = "KeyError"
    /\ last.id \in created \cap deleted
    /\ ~Stored(table, last.id)
    /\ \A v \in versions[last.id] : v.updated_at < clock

\* C15: the stored updated_at of an item never decreases: with a clock that
\* never goes backwards, every commit of overlapping updates leaves an
\* updated_at not before the one stored just before it.
C15_UpdatedAtMonotone ==
    [][\A id \in UUIDs :
         (Stored(table, id) /\ Stored(table', id))
         => StoredItem(table', id).updated_at
              >= StoredItem(table, id).updated_at]_vars
====
